---- MODULE Spec2Model ----
(***************************************************************************)
(* Model of src/components/timeline/LocalTrack.js: one row of the timeline *)
(* (a "local track" of a process).  The connected component reads the      *)
(* url-state of the store through mapStateToProps, renders either a stub   *)
(* (hidden) or the interactive row, and issues the commands                *)
(* selectTrackWithModifiers, hideLocalTrack and changeRightClickedTrack    *)
(* from its DOM event handlers.                                            *)
(***************************************************************************)
EXTENDS Integers, Sequences, FiniteSets, TLC

\* ------------------------------------------------------------------ bounds
MaxThreadIndex == 1
MaxCounterIndex == 1
MaxTrackIndex == 1

ThreadIndexes == 0..MaxThreadIndex
CounterIndexes == 0..MaxCounterIndex
TrackIndexes == 0..MaxTrackIndex
\* The process ids of the profile.
Pids == {7}

\* The tabs of the application; the component names two of them.
Tabs == {"calltree", "marker-chart", "network-chart"}

\* ------------------------------------------------------- track descriptors
ThreadTrackTypes == {"thread", "network", "ipc", "event-delay"}
CounterTrackTypes == {"memory", "bandwidth", "process-cpu", "power"}
LocalTrackTypes == ThreadTrackTypes \cup CounterTrackTypes \cup {"marker"}

\* A type tag outside the closed union (a build / version skew).
UnhandledTypes == {"unhandled"}

LocalTracks ==
  [type : ThreadTrackTypes, threadIndex : ThreadIndexes]
    \cup [type : CounterTrackTypes, counterIndex : CounterIndexes]
    \cup [type : {"marker"}, threadIndex : ThreadIndexes,
          markerSchema : {"schema"}, markerName : {"name"}]

MalformedTracks == [type : UnhandledTypes]

OwnPropsSet ==
  [pid : Pids, localTrack : LocalTracks \cup MalformedTracks,
   trackIndex : TrackIndexes]

VARIABLES
  selectedThreadIndexes,  \* url-state: the set of selected thread indexes
  selectedTab,            \* url-state: the active tab
  hiddenLocalTracks,      \* url-state: pid -> set of hidden track indexes
  ownProps,               \* pid, localTrack, trackIndex given by the parent
  phase,                  \* "init", "mounted" or "threw"
  props,                  \* the last result of mapStateToProps
  dom,                    \* the last output of render
  initialSelectedPaneCalls, \* calls of setIsInitialSelectedPane(true)
  consoleErrors,          \* calls of console.error
  lastEvent               \* the user event handled by the last step

vars == <<selectedThreadIndexes, selectedTab, hiddenLocalTracks, ownProps,
          phase, props, dom, initialSelectedPaneCalls, consoleErrors,
          lastEvent>>

\* The store state as the selectors see it.
StoreState(sel, tab, hid) ==
  [selectedThreadIndexes |-> sel, selectedTab |-> tab,
   hiddenLocalTracks |-> hid]

state == StoreState(selectedThreadIndexes, selectedTab, hiddenLocalTracks)

\* ---------------------------------------------------------------- selectors
getSelectedThreadIndexes(s) == s.selectedThreadIndexes
getSelectedTab(s) == s.selectedTab
getHiddenLocalTracks(s, pid) == s.hiddenLocalTracks[pid]
getLocalTrackName(s, pid, trackIndex) == <<"LocalTrackName", pid, trackIndex>>
getThreadProcessDetails(s, threadIndex) == <<"ThreadProcessDetails", threadIndex>>
getDescription(s, counterIndex) == <<"CounterDescription", counterIndex>>

\* null of JavaScript, for the title and for a render that returns nothing.
Null == <<>>

\* JavaScript values carry their type; === is false across types.
JsNumber(n) == [t |-> "number", v |-> n]
JsBoolean(b) == [t |-> "boolean", v |-> b]
StrictEquals(a, b) == a.t = b.t /\ a.v = b.v

\* ------------------------------------------------- mapStateToProps, by case
\* case 'thread': selected thread, and the tab is not the network chart.
ThreadIsSelected_IgnoresTab(s, threadIndex) ==
  threadIndex \in getSelectedThreadIndexes(s)

ThreadIsSelected(s, threadIndex) ==
  threadIndex \in getSelectedThreadIndexes(s)
    /\ getSelectedTab(s) # "network-chart"

\* case 'network': selected thread, and the tab is the network chart.
NetworkIsSelected_IgnoresTab(s, threadIndex) ==
  threadIndex \in getSelectedThreadIndexes(s)

NetworkIsSelected(s, threadIndex) ==
  threadIndex \in getSelectedThreadIndexes(s)
    /\ getSelectedTab(s) = "network-chart"

\* case 'marker', case 'ipc': selected thread, and the tab is the marker chart.
MarkerIsSelected_IgnoresTab(s, threadIndex) ==
  threadIndex \in getSelectedThreadIndexes(s)

MarkerIsSelected_NotNetworkTab(s, threadIndex) ==
  threadIndex \in getSelectedThreadIndexes(s)
    /\ getSelectedTab(s) # "network-chart"

MarkerIsSelected(s, threadIndex) ==
  threadIndex \in getSelectedThreadIndexes(s)
    /\ getSelectedTab(s) = "marker-chart"

\* case 'event-delay': threadIndex === selectedThreadIndexes.has(threadIndex),
\* a number compared with a boolean.
EventDelayIsSelected(s, threadIndex) ==
  StrictEquals(JsNumber(threadIndex),
               JsBoolean(threadIndex \in getSelectedThreadIndexes(s)))

\* The switch of mapStateToProps: [threw, titleText, isSelected].
ResolveByType_SilentDefault(s, localTrack) ==
  CASE localTrack.type = "thread" ->
         [threw |-> FALSE,
          titleText |-> getThreadProcessDetails(s, localTrack.threadIndex),
          isSelected |-> ThreadIsSelected(s, localTrack.threadIndex)]
    [] localTrack.type = "network" ->
         [threw |-> FALSE, titleText |-> Null,
          isSelected |-> NetworkIsSelected(s, localTrack.threadIndex)]
    [] localTrack.type \in {"marker", "ipc"} ->
         [threw |-> FALSE, titleText |-> Null,
          isSelected |-> MarkerIsSelected(s, localTrack.threadIndex)]
    [] localTrack.type = "event-delay" ->
         [threw |-> FALSE,
          titleText |-> <<"Event Delay of ">>
                          \o getThreadProcessDetails(s, localTrack.threadIndex),
          isSelected |-> EventDelayIsSelected(s, localTrack.threadIndex)]
    [] localTrack.type \in {"memory", "bandwidth", "process-cpu", "power"} ->
         [threw |-> FALSE,
          titleText |-> getDescription(s, localTrack.counterIndex),
          isSelected |-> FALSE]
    [] OTHER ->
         [threw |-> FALSE, titleText |-> Null, isSelected |-> FALSE]

ResolveByType_PowerUnhandled(s, localTrack) ==
  IF localTrack.type = "power"
    THEN [threw |-> TRUE, titleText |-> Null, isSelected |-> FALSE]
    ELSE ResolveByType_SilentDefault(s, localTrack)

ResolveByType(s, localTrack) ==
  CASE localTrack.type = "thread" ->
         [threw |-> FALSE,
          titleText |-> getThreadProcessDetails(s, localTrack.threadIndex),
          isSelected |-> ThreadIsSelected(s, localTrack.threadIndex)]
    [] localTrack.type = "network" ->
         [threw |-> FALSE, titleText |-> Null,
          isSelected |-> NetworkIsSelected(s, localTrack.threadIndex)]
    [] localTrack.type \in {"marker", "ipc"} ->
         [threw |-> FALSE, titleText |-> Null,
          isSelected |-> MarkerIsSelected(s, localTrack.threadIndex)]
    [] localTrack.type = "event-delay" ->
         [threw |-> FALSE,
          titleText |-> <<"Event Delay of ">>
                          \o getThreadProcessDetails(s, localTrack.threadIndex),
          isSelected |-> EventDelayIsSelected(s, localTrack.threadIndex)]
    [] localTrack.type \in {"memory", "bandwidth", "process-cpu", "power"} ->
         [threw |-> FALSE,
          titleText |-> getDescription(s, localTrack.counterIndex),
          isSelected |-> FALSE]
    [] OTHER ->
         \* throw assertExhaustiveCheck(localTrack, ...)
         [threw |-> TRUE, titleText |-> Null, isSelected |-> FALSE]

\* isHidden: the row's track index is in the hidden set of its process.
IsHidden_Never(s, pid, trackIndex) == FALSE

IsHidden(s, pid, trackIndex) == trackIndex \in getHiddenLocalTracks(s, pid)

\* mapStateToProps(state, {pid, localTrack, trackIndex}); when the switch
\* throws there is no result.
NoProps ==
  [trackName |-> Null, titleText |-> Null, isSelected |-> FALSE,
   isHidden |-> FALSE]

mapStateToProps(s, own) ==
  LET r == ResolveByType(s, own.localTrack) IN
  IF r.threw
    THEN [threw |-> TRUE, props |-> NoProps]
    ELSE [threw |-> FALSE,
          props |->
            [trackName |-> getLocalTrackName(s, own.pid, own.trackIndex),
             titleText |-> r.titleText,
             isSelected |-> r.isSelected,
             isHidden |-> IsHidden(s, own.pid, own.trackIndex)]]

\* -------------------------------------------------------------- component
\* _getTrackReference()
_getTrackReference(own) ==
  [type |-> "local", pid |-> own.pid, trackIndex |-> own.trackIndex]

\* A DOM event: its kind and the modifier keys held.  The modifiers are
\* handed to the command unchanged and decide nothing in this component,
\* so the events are taken without a modifier key.
Events ==
  [type : {"click", "contextmenu"}, ctrlOrMeta : {FALSE}, shift : {FALSE}]

getTrackSelectionModifiers(event) ==
  [ctrlOrMeta |-> event.ctrlOrMeta, shift |-> event.shift]

\* The handlers: the commands a call issues, and whether it stops the
\* propagation of the event.
_onContextMenu(own, event) ==
  [commands |-> << [cmd |-> "changeRightClickedTrack",
                    track |-> _getTrackReference(own)] >>,
   stopPropagation |-> FALSE]

_selectCurrentTrack(own, event) ==
  [commands |-> << [cmd |-> "selectTrackWithModifiers",
                    track |-> _getTrackReference(own),
                    modifiers |-> getTrackSelectionModifiers(event)] >>,
   stopPropagation |-> FALSE]

_hideCurrentTrack_Propagates(own, event) ==
  [commands |-> << [cmd |-> "hideLocalTrack", pid |-> own.pid,
                    trackIndex |-> own.trackIndex] >>,
   stopPropagation |-> FALSE]

_hideCurrentTrack(own, event) ==
  [commands |-> << [cmd |-> "hideLocalTrack", pid |-> own.pid,
                    trackIndex |-> own.trackIndex] >>,
   stopPropagation |-> TRUE]

\* renderTrack(): the sub-view of the descriptor; the default case logs and
\* returns null.
renderTrack(localTrack, trackName) ==
  CASE localTrack.type = "thread" ->
         [element |-> <<"TimelineTrackThread", localTrack.threadIndex,
                        "expanded", trackName>>, logged |-> FALSE]
    [] localTrack.type = "network" ->
         [element |-> <<"TrackNetwork", localTrack.threadIndex>>,
          logged |-> FALSE]
    [] localTrack.type = "memory" ->
         [element |-> <<"TrackMemory", localTrack.counterIndex>>,
          logged |-> FALSE]
    [] localTrack.type = "bandwidth" ->
         [element |-> <<"TrackBandwidth", localTrack.counterIndex>>,
          logged |-> FALSE]
    [] localTrack.type = "ipc" ->
         [element |-> <<"TrackIPC", localTrack.threadIndex>>,
          logged |-> FALSE]
    [] localTrack.type = "event-delay" ->
         [element |-> <<"TrackEventDelay", localTrack.threadIndex>>,
          logged |-> FALSE]
    [] localTrack.type = "process-cpu" ->
         [element |-> <<"TrackProcessCPU", localTrack.counterIndex>>,
          logged |-> FALSE]
    [] localTrack.type = "power" ->
         [element |-> <<"TrackPower", localTrack.counterIndex>>,
          logged |-> FALSE]
    [] localTrack.type = "marker" ->
         [element |-> <<"TrackCustomMarker", localTrack.threadIndex,
                        localTrack.markerSchema, localTrack.markerName>>,
          logged |-> FALSE]
    [] OTHER -> [element |-> Null, logged |-> TRUE]

\* The elements of the row, each with its parent; the event of a target
\* bubbles from the target to the <li>.
RowElements == {"li", "row", "label", "nameButton", "closeButton", "track"}

Parent(el) ==
  CASE el = "closeButton" -> "label"
    [] el = "nameButton" -> "label"
    [] el = "label" -> "row"
    [] el = "track" -> "row"
    [] el = "row" -> "li"
    [] OTHER -> "none"

\* The output of render() before the mount.
NoDom ==
  [className |-> "none", elements |-> {}, handlers |-> {},
   selected |-> FALSE, title |-> Null, trackName |-> Null, track |-> Null,
   logged |-> FALSE]

HiddenStub ==
  [className |-> "timelineTrackHidden", elements |-> {"li"}, handlers |-> {},
   selected |-> FALSE, title |-> Null, trackName |-> Null, track |-> Null,
   logged |-> FALSE]

VisibleRow(p, own) ==
  LET t == renderTrack(own.localTrack, p.trackName) IN
  [className |-> "timelineTrack timelineTrackLocal",
   elements |-> RowElements,
   handlers |->
     {[element |-> "row", event |-> "click",
       handler |-> "_selectCurrentTrack"],
      [element |-> "label", event |-> "contextmenu",
       handler |-> "_onContextMenu"],
      [element |-> "closeButton", event |-> "click",
       handler |-> "_hideCurrentTrack"]},
   selected |-> p.isSelected, title |-> p.titleText,
   trackName |-> p.trackName, track |-> t.element, logged |-> t.logged]

render_IgnoresHidden(p, own) == VisibleRow(p, own)

\* render(): the stub when hidden, the interactive row otherwise.
render(p, own) == IF p.isHidden THEN HiddenStub ELSE VisibleRow(p, own)

\* componentDidMount(): the number of setIsInitialSelectedPane(true) calls.
componentDidMount_Always(p) == 1

componentDidMount(p) == IF p.isSelected THEN 1 ELSE 0

\* The call of a handler by its name.
RunHandler(name, own, event) ==
  CASE name = "_selectCurrentTrack" -> _selectCurrentTrack(own, event)
    [] name = "_onContextMenu" -> _onContextMenu(own, event)
    [] name = "_hideCurrentTrack" -> _hideCurrentTrack(own, event)

\* The commands an event issues on its way from el to the root: the handler
\* of each element runs unless the propagation was stopped below it.
RECURSIVE Propagate(_, _, _, _)
Propagate(d, el, own, event) ==
  IF el = "none" THEN <<>>
  ELSE
    LET hs == {h \in d.handlers : h.element = el /\ h.event = event.type}
        r == IF hs = {}
               THEN [commands |-> <<>>, stopPropagation |-> FALSE]
               ELSE RunHandler((CHOOSE h \in hs : TRUE).handler, own, event)
    IN r.commands \o
         (IF r.stopPropagation THEN <<>>
          ELSE Propagate(d, Parent(el), own, event))

\* ------------------------------------------------------------------ store
\* The store states a command may leave.  The reducers live outside
\* LocalTrack.js; each command is given every effect on the url-state that
\* the row can see: hiding adds the track to the hidden set of its process
\* or is refused, selecting leaves some set of selected threads, and the
\* right-clicked track is no part of the url-state.
Reduce(s, c) ==
  CASE c.cmd = "hideLocalTrack" ->
         {s, StoreState(s.selectedThreadIndexes, s.selectedTab,
                [s.hiddenLocalTracks EXCEPT
                   ![c.pid] = @ \cup {c.trackIndex}])}
    [] c.cmd = "selectTrackWithModifiers" ->
         {StoreState(sel, s.selectedTab, s.hiddenLocalTracks) :
            sel \in SUBSET ThreadIndexes}
    [] OTHER -> {s}

RECURSIVE ReduceAll(_, _)
ReduceAll(S, cmds) ==
  IF cmds = <<>> THEN S
  ELSE ReduceAll(UNION {Reduce(s, Head(cmds)) : s \in S}, Tail(cmds))

NoEvent == [target |-> "none", type |-> "none", commands |-> <<>>]

\* The store notifies the connected component: mapStateToProps runs on the
\* new state and the component renders the new props.
Rerender(s) ==
  LET p == mapStateToProps(s, ownProps).props
      d == render(p, ownProps) IN
  /\ selectedThreadIndexes' = s.selectedThreadIndexes
  /\ selectedTab' = s.selectedTab
  /\ hiddenLocalTracks' = s.hiddenLocalTracks
  /\ props' = p
  /\ dom' = d
  /\ consoleErrors' = IF d.logged /\ p # props THEN 1 ELSE consoleErrors

Init ==
  /\ selectedThreadIndexes \in SUBSET ThreadIndexes
  /\ selectedTab \in Tabs
  /\ hiddenLocalTracks \in [Pids -> SUBSET TrackIndexes]
  /\ ownProps \in OwnPropsSet
  /\ phase = "init"
  /\ props = NoProps
  /\ dom = NoDom
  /\ initialSelectedPaneCalls = 0
  /\ consoleErrors = 0
  /\ lastEvent = NoEvent

\* The connected component is created: mapStateToProps, render, and
\* componentDidMount.  An error thrown by mapStateToProps leaves no row.
Mount ==
  /\ phase = "init"
  /\ LET r == mapStateToProps(state, ownProps) IN
     IF r.threw
       THEN /\ phase' = "threw"
            /\ UNCHANGED <<props, dom, initialSelectedPaneCalls,
                           consoleErrors>>
       ELSE LET d == render(r.props, ownProps) IN
            /\ phase' = "mounted"
            /\ props' = r.props
            /\ dom' = d
            /\ consoleErrors' = IF d.logged THEN 1 ELSE 0
            /\ initialSelectedPaneCalls' =
                 initialSelectedPaneCalls + componentDidMount(r.props)
  /\ lastEvent' = NoEvent
  /\ UNCHANGED <<selectedThreadIndexes, selectedTab, hiddenLocalTracks,
                 ownProps>>

\* The user clicks or right-clicks an element of the rendered row: the
\* handlers on the event's path issue their commands, the store reduces
\* them, and the row renders the new state.
UserEvent(target, event) ==
  /\ phase = "mounted"
  /\ target \in dom.elements
  /\ LET cmds == Propagate(dom, target, ownProps, event) IN
     /\ lastEvent' = [target |-> target, type |-> event.type,
                      commands |-> cmds]
     /\ \E s \in ReduceAll({state}, cmds) : Rerender(s)
  /\ UNCHANGED <<ownProps, phase, initialSelectedPaneCalls>>

\* Commands of the rest of the application that change the url-state.
changeSelectedTab(tab) ==
  /\ phase = "mounted"
  /\ tab # selectedTab
  /\ Rerender(StoreState(selectedThreadIndexes, tab, hiddenLocalTracks))
  /\ lastEvent' = NoEvent
  /\ UNCHANGED <<ownProps, phase, initialSelectedPaneCalls>>

changeSelectedThreads(sel) ==
  /\ phase = "mounted"
  /\ sel # selectedThreadIndexes
  /\ Rerender(StoreState(sel, selectedTab, hiddenLocalTracks))
  /\ lastEvent' = NoEvent
  /\ UNCHANGED <<ownProps, phase, initialSelectedPaneCalls>>

showLocalTrack(pid, trackIndex) ==
  /\ phase = "mounted"
  /\ trackIndex \in hiddenLocalTracks[pid]
  /\ Rerender(StoreState(selectedThreadIndexes, selectedTab,
                [hiddenLocalTracks EXCEPT ![pid] = @ \ {trackIndex}]))
  /\ lastEvent' = NoEvent
  /\ UNCHANGED <<ownProps, phase, initialSelectedPaneCalls>>

hideLocalTrack(pid, trackIndex) ==
  /\ phase = "mounted"
  /\ trackIndex \notin hiddenLocalTracks[pid]
  /\ Rerender(StoreState(selectedThreadIndexes, selectedTab,
                [hiddenLocalTracks EXCEPT ![pid] = @ \cup {trackIndex}]))
  /\ lastEvent' = NoEvent
  /\ UNCHANGED <<ownProps, phase, initialSelectedPaneCalls>>

Next ==
  \/ Mount
  \/ \E target \in RowElements, event \in Events : UserEvent(target, event)
  \/ \E tab \in Tabs : changeSelectedTab(tab)
  \/ \E sel \in SUBSET ThreadIndexes : changeSelectedThreads(sel)
  \/ \E pid \in Pids, trackIndex \in TrackIndexes :
       showLocalTrack(pid, trackIndex)
  \/ \E pid \in Pids, trackIndex \in TrackIndexes :
       hideLocalTrack(pid, trackIndex)

Spec == Init /\ [][Next]_vars

\* ================================================================= claims
Mounted == phase = "mounted"
RowType == ownProps.localTrack.type
RowHidden == ownProps.trackIndex \in hiddenLocalTracks[ownProps.pid]

\* C1: a 'thread' row is resolved as selected exactly when its thread index
\* is in the selected-thread set and the active tab is not 'network-chart'.
C1_ThreadSelected ==
  (Mounted /\ RowType = "thread") =>
    (props.isSelected <=>
       (ownProps.localTrack.threadIndex \in selectedThreadIndexes
          /\ selectedTab # "network-chart"))

C1_Witness ==
  /\ Mounted /\ RowType = "thread"
  /\ ownProps.localTrack.threadIndex \in selectedThreadIndexes
  /\ selectedTab = "network-chart"
  /\ ~props.isSelected

\* C2: a 'network' row is resolved as selected exactly when its thread index
\* is in the selected-thread set and the active tab is 'network-chart'.
C2_NetworkSelected ==
  (Mounted /\ RowType = "network") =>
    (props.isSelected <=>
       (ownProps.localTrack.threadIndex \in selectedThreadIndexes
          /\ selectedTab = "network-chart"))

C2_Witness ==
  /\ Mounted /\ RowType = "network"
  /\ ownProps.localTrack.threadIndex \in selectedThreadIndexes
  /\ selectedTab = "network-chart"
  /\ props.isSelected

\* C3: a 'marker' or 'ipc' row is resolved as selected exactly when the
\* active tab is 'marker-chart' and its thread index is in the selected set.
C3_MarkerIpcSelected ==
  (Mounted /\ RowType \in {"marker", "ipc"}) =>
    (props.isSelected <=>
       (selectedTab = "marker-chart"
          /\ ownProps.localTrack.threadIndex \in selectedThreadIndexes))

C3_Witness ==
  /\ Mounted /\ RowType \in {"marker", "ipc"}
  /\ ownProps.localTrack.threadIndex \in selectedThreadIndexes
  /\ selectedTab = "calltree"
  /\ ~props.isSelected

\* C4: while the row's track index is in the hidden set of its process the
\* rendered output is the stub without handlers, whatever the descriptor,
\* and no user event on it issues a command.
C4_HiddenInert ==
  /\ []((Mounted /\ RowHidden) => (dom = HiddenStub /\ dom.handlers = {}))
  /\ [][(Mounted /\ RowHidden) => lastEvent'.commands = <<>>]_vars

C4_Witness ==
  /\ Mounted /\ RowHidden
  /\ lastEvent.target = "li" /\ lastEvent.type = "click"
  /\ lastEvent.commands = <<>>

\* C5: one activation of the close button issues exactly one hideLocalTrack
\* command with the row's pid and track index, and no select command.
C5_CloseOnlyHides ==
  (lastEvent.target = "closeButton" /\ lastEvent.type = "click") =>
    lastEvent.commands =
      << [cmd |-> "hideLocalTrack", pid |-> ownProps.pid,
          trackIndex |-> ownProps.trackIndex] >>

C5_Witness ==
  /\ lastEvent.target = "closeButton" /\ lastEvent.type = "click"
  /\ Len(lastEvent.commands) = 1
  /\ RowHidden

\* C6: setIsInitialSelectedPane(true) is called at the mount exactly when
\* the row is resolved as selected there, and never after the mount.
C6_NotifyOnceAtMount ==
  [][/\ (phase = "init" /\ phase' = "mounted") =>
          initialSelectedPaneCalls' = (IF props'.isSelected THEN 1 ELSE 0)
     /\ (phase = "init" /\ phase' = "threw") => initialSelectedPaneCalls' = 0
     /\ phase # "init" => initialSelectedPaneCalls' = initialSelectedPaneCalls
    ]_vars

C6_Witness ==
  /\ Mounted /\ props.isSelected /\ initialSelectedPaneCalls = 0

\* C7: the resolver returns a result for every descriptor of the closed set
\* in every store state, and throws for a type tag outside the set.
C7_ResolverTotalOnClosedSet ==
  /\ \A lt \in LocalTracks :
       LET r == mapStateToProps(state, [ownProps EXCEPT !.localTrack = lt]) IN
       ~r.threw /\ DOMAIN r.props =
                     {"trackName", "titleText", "isSelected", "isHidden"}
  /\ \A lt \in MalformedTracks :
       mapStateToProps(state, [ownProps EXCEPT !.localTrack = lt]).threw
  /\ phase # "init" => (phase = "threw" <=> RowType \notin LocalTrackTypes)

C7_Witness == phase = "threw" /\ RowType \in UnhandledTypes

\* C8 as claimed: a row with an unrecognized type tag ends logged and
\* rendered as nothing, not in a thrown error.
C8_MalformedRowDegrades ==
  (phase # "init" /\ RowType \notin LocalTrackTypes) =>
    (phase = "mounted" /\ consoleErrors = 1 /\ dom.track = Null)

\* C8 amended: renderTrack alone logs and returns null for an unrecognized
\* type tag, but the resolver runs first and throws: the row ends in a
\* thrown error, with nothing rendered and nothing logged.
C8_MalformedRowThrows ==
  RowType \notin LocalTrackTypes =>
    /\ renderTrack(ownProps.localTrack, Null) =
         [element |-> Null, logged |-> TRUE]
    /\ phase # "init" =>
         (phase = "threw" /\ dom = NoDom /\ consoleErrors = 0)

C8_Witness ==
  /\ RowType \notin LocalTrackTypes /\ phase = "threw" /\ dom = NoDom
  /\ consoleErrors = 0

\* C9 as claimed: an 'event-delay' row is resolved as selected exactly when
\* its thread index is in the selected-thread set, whatever the tab.
C9_EventDelaySelected ==
  (Mounted /\ RowType = "event-delay") =>
    (props.isSelected <=>
       ownProps.localTrack.threadIndex \in selectedThreadIndexes)

\* C10: in no store state are a 'network' row and a 'thread', 'marker' or
\* 'ipc' row both resolved as selected, for any two thread indexes.
C10_NetworkExcludesOthers ==
  \A n \in [type : {"network"}, threadIndex : ThreadIndexes] :
    \A o \in {lt \in LocalTracks : lt.type \in {"thread", "marker", "ipc"}} :
      ~(/\ mapStateToProps(state,
             [ownProps EXCEPT !.localTrack = n]).props.isSelected
        /\ mapStateToProps(state,
             [ownProps EXCEPT !.localTrack = o]).props.isSelected)

C10_Witness ==
  /\ Mounted /\ RowType = "network" /\ props.isSelected
  /\ selectedThreadIndexes = ThreadIndexes
  /\ lastEvent.type = "click"
====
